---- MODULE Spec2Model ----
(***************************************************************************)
(* grm (git repository manager), src/main.rs.                              *)
(*                                                                         *)
(* Strings are sequences of one-character strings, so that separator       *)
(* counting, prefixing, URL parsing and path joining are computed on the   *)
(* characters as the code computes them.                                   *)
(***************************************************************************)
EXTENDS Integers, Sequences, FiniteSets, TLC

(***************************************************************************)
(* Bounds of the model.                                                    *)
(***************************************************************************)
MaxRefLen == 3
MaxUserLen == 2
MaxCalls == 6
MaxUrlLen == 3
MaxCmdRefLen == 1
MaxDepth == 1
MaxNameLen == 2
MaxBranches == 2
MaxEntries == 4

(***************************************************************************)
(* str helpers (char sequences).                                           *)
(***************************************************************************)
Take(s, n) == SubSeq(s, 1, n)
Drop(s, n) == SubSeq(s, n + 1, Len(s))

\* str::contains(char)
Contains(s, c) == \E i \in 1..Len(s) : s[i] = c

\* number of occurrences of the character c
Count(s, c) == Cardinality({i \in 1..Len(s) : s[i] = c})

\* str::split('/').count(): one more than the number of separators
SplitCount(s) == Count(s, "/") + 1

\* index of the first character of s that lies in C, 0 if none
FirstIdx(s, C) ==
    IF \E i \in 1..Len(s) : s[i] \in C
    THEN CHOOSE i \in 1..Len(s) : s[i] \in C /\ \A j \in 1..(i - 1) : s[j] \notin C
    ELSE 0

\* index of the first character of s that lies outside C, 0 if none
FirstIdxNotIn(s, C) ==
    IF \E i \in 1..Len(s) : s[i] \notin C
    THEN CHOOSE i \in 1..Len(s) : s[i] \notin C /\ \A j \in 1..(i - 1) : s[j] \in C
    ELSE 0

\* index of the last occurrence of c in s, 0 if none
LastIdx(s, c) ==
    IF \E i \in 1..Len(s) : s[i] = c
    THEN CHOOSE i \in 1..Len(s) : s[i] = c /\ \A j \in (i + 1)..Len(s) : s[j] # c
    ELSE 0

\* str::split over a set of separator characters: always at least one piece
RECURSIVE Split(_, _)
Split(s, C) ==
    LET i == FirstIdx(s, C)
    IN  IF i = 0 THEN <<s>> ELSE <<Take(s, i - 1)>> \o Split(Drop(s, i), C)

\* str::contains(&str): t occurs in s
ContainsStr(s, t) == \E i \in 0..(Len(s) - Len(t)) : SubSeq(s, i + 1, i + Len(t)) = t

\* str::trim_start_matches over a set of characters
TrimStart(s, C) ==
    LET i == FirstIdxNotIn(s, C)
    IN  IF i = 0 THEN <<>> ELSE Drop(s, i - 1)

\* the element of a one-element set: binds a value that is computed once
Only(S) == CHOOSE x \in S : TRUE

\* all sequences over the characters C of length at most n
RECURSIVE SeqsUpTo(_, _)
SeqsUpTo(C, n) ==
    IF n = 0 THEN {<<>>}
    ELSE LET shorter == SeqsUpTo(C, n - 1)
         IN  shorter \cup {Append(s, c) : s \in {t \in shorter : Len(t) = n - 1}, c \in C}

(***************************************************************************)
(* url::Url::parse, as main.rs uses it: the scheme, the authority          *)
(* (credentials, host, port), the path with its dot segments removed, the  *)
(* query and the fragment. Url equality is equality of the parsed fields.  *)
(***************************************************************************)
Letters == {"a", "b", "c", "d", "e", "f", "g", "h", "i", "j", "k", "l", "m",
            "n", "o", "p", "q", "r", "s", "t", "u", "v", "w", "x", "y", "z"}
Digits == {"0", "1", "2", "3", "4", "5", "6", "7", "8", "9"}
SchemeChars == Letters \cup Digits \cup {"+", "-", "."}

DigitVal(c) ==
    CASE c = "0" -> 0 [] c = "1" -> 1 [] c = "2" -> 2 [] c = "3" -> 3 [] c = "4" -> 4
      [] c = "5" -> 5 [] c = "6" -> 6 [] c = "7" -> 7 [] c = "8" -> 8 [] c = "9" -> 9

RECURSIVE DecVal(_)
DecVal(s) == IF s = <<>> THEN 0 ELSE 10 * DecVal(Take(s, Len(s) - 1)) + DigitVal(s[Len(s)])

AllDigits(s) == \A i \in 1..Len(s) : s[i] \in Digits

RECURSIVE Pow256(_)
Pow256(n) == IF n = 0 THEN 1 ELSE 256 * Pow256(n - 1)

HttpsScheme == <<"h", "t", "t", "p", "s">>
SpecialSchemes ==
    {<<"h", "t", "t", "p">>, HttpsScheme, <<"w", "s">>, <<"w", "s", "s">>, <<"f", "t", "p">>}

DefaultPort(scheme) ==
    CASE scheme = <<"h", "t", "t", "p">> -> <<80>>
      [] scheme = HttpsScheme -> <<443>>
      [] scheme = <<"w", "s">> -> <<80>>
      [] scheme = <<"w", "s", "s">> -> <<443>>
      [] scheme = <<"f", "t", "p">> -> <<21>>
      [] OTHER -> <<>>

ParseErr(e) == [ok |-> FALSE, err |-> e]

\* the index of the ':' that ends the scheme, 0 when the input has no scheme
SchemeEnd(input) ==
    IF input = <<>> \/ input[1] \notin Letters THEN 0
    ELSE LET i == FirstIdxNotIn(input, SchemeChars)
         IN  IF i > 0 /\ input[i] = ":" THEN i ELSE 0

\* code points a host may not hold
ForbiddenHost == {" ", "#", "/", ":", "<", ">", "?", "@", "[", "\\", "]", "^", "|"}
ForbiddenDomain == ForbiddenHost \cup {"%"}

\* the labels of a host, a trailing empty label dropped
HostParts(h) ==
    LET parts == Split(h, {"."})
    IN  IF Len(parts) > 1 /\ parts[Len(parts)] = <<>>
        THEN Take(parts, Len(parts) - 1) ELSE parts

EndsInNumber(h) ==
    LET parts == HostParts(h)
        last == parts[Len(parts)]
    IN  last # <<>> /\ AllDigits(last)

\* the IPv4 parser on decimal parts: <<>> on failure, <<the four bytes>> otherwise
Ipv4Parse(h) ==
    LET parts == HostParts(h)
        n == Len(parts)
        last == DecVal(parts[n])
    IN  IF n > 4 \/ \E i \in 1..n : parts[i] = <<>> \/ ~AllDigits(parts[i]) THEN <<>>
        ELSE IF \E i \in 1..(n - 1) : DecVal(parts[i]) > 255 THEN <<>>
        ELSE IF last \div Pow256(4 - n) >= 256 THEN <<>>
        ELSE <<[i \in 1..4 |-> IF i < n THEN DecVal(parts[i])
                                ELSE (last \div Pow256(4 - i)) % 256]>>

\* percent-encoding of the userinfo set, on the characters credentials can hold
RECURSIVE EncodeUserinfo(_)
EncodeUserinfo(s) ==
    IF s = <<>> THEN <<>>
    ELSE (CASE s[1] = "@" -> <<"%", "4", "0">>
            [] s[1] = ":" -> <<"%", "3", "A">>
            [] OTHER -> <<s[1]>>) \o EncodeUserinfo(Drop(s, 1))

NoHost(ok) == [ok |-> ok, kind |-> "None", host |-> <<>>, ipv4 |-> <<>>]

\* the host of an authority: [ok, kind, host, ipv4]
ParseHost(h, special) ==
    IF ~special
    THEN IF \E i \in 1..Len(h) : h[i] \in ForbiddenHost
         THEN NoHost(FALSE)
         ELSE IF h = <<>> THEN NoHost(TRUE)
         ELSE [ok |-> TRUE, kind |-> "Domain", host |-> h, ipv4 |-> <<>>]
    ELSE IF h = <<>> \/ \E i \in 1..Len(h) : h[i] \in ForbiddenDomain
         THEN NoHost(FALSE)
    ELSE IF EndsInNumber(h)
         THEN LET a == Ipv4Parse(h)
              IN  IF a = <<>>
                  THEN NoHost(FALSE)
                  ELSE [ok |-> TRUE, kind |-> "Ipv4", host |-> <<>>, ipv4 |-> a]
    ELSE [ok |-> TRUE, kind |-> "Domain", host |-> h, ipv4 |-> <<>>]

\* dot-segment removal over the segments of a path that starts with '/'
RECURSIVE PathSegments(_, _)
PathSegments(segs, out) ==
    IF segs = <<>> THEN out
    ELSE LET seg == segs[1]
             isLast == Len(segs) = 1
             popped == IF out = <<>> THEN out ELSE Take(out, Len(out) - 1)
             next == IF seg = <<".", ".">>
                     THEN (IF isLast THEN Append(popped, <<>>) ELSE popped)
                     ELSE IF seg = <<".">>
                     THEN (IF isLast THEN Append(out, <<>>) ELSE out)
                     ELSE Append(out, seg)
         IN  PathSegments(Drop(segs, 1), next)

RECURSIVE JoinSegments(_)
JoinSegments(segs) ==
    IF segs = <<>> THEN <<>> ELSE <<"/">> \o segs[1] \o JoinSegments(Drop(segs, 1))

\* the path of a hierarchical URL: raw is empty or starts with a separator
ParsePath(raw, special) ==
    IF raw = <<>> THEN (IF special THEN <<"/">> ELSE <<>>)
    ELSE JoinSegments(PathSegments(
             Split(Drop(raw, 1), IF special THEN {"/", "\\"} ELSE {"/"}), <<>>))

\* authority and path of "scheme://authority/path"
ParseAuthority(scheme, special, auth, rawpath, query, fragment) ==
    LET at == LastIdx(auth, "@")
        userinfo == IF at = 0 THEN <<>> ELSE Take(auth, at - 1)
        hostport == Drop(auth, at)
        c == FirstIdx(userinfo, {":"})
        username == EncodeUserinfo(IF c = 0 THEN userinfo ELSE Take(userinfo, c - 1))
        password == IF c = 0 THEN <<>> ELSE EncodeUserinfo(Drop(userinfo, c))
        p == FirstIdx(hostport, {":"})
        hoststr == IF p = 0 THEN hostport ELSE Take(hostport, p - 1)
        portstr == IF p = 0 THEN <<>> ELSE Drop(hostport, p)
        host == ParseHost(hoststr, special)
        port == IF portstr = <<>> THEN <<>> ELSE <<DecVal(portstr)>>
    IN  IF hoststr = <<>> /\ (special \/ at # 0 \/ p # 0) THEN ParseErr("EmptyHost")
        ELSE IF ~host.ok THEN ParseErr("InvalidHost")
        ELSE IF ~AllDigits(portstr) \/ DecVal(portstr) > 65535 THEN ParseErr("InvalidPort")
        ELSE [ok |-> TRUE, scheme |-> scheme, username |-> username, password |-> password,
              hostKind |-> host.kind, host |-> host.host, ipv4 |-> host.ipv4,
              port |-> IF port = DefaultPort(scheme) THEN <<>> ELSE port,
              path |-> ParsePath(rawpath, special),
              cannotBeABase |-> FALSE, query |-> query, fragment |-> fragment]

\* a URL without an authority: a path-only URL, or an opaque path
NoAuthority(scheme, path, opaque, query, fragment) ==
    [ok |-> TRUE, scheme |-> scheme, username |-> <<>>, password |-> <<>>,
     hostKind |-> "None", host |-> <<>>, ipv4 |-> <<>>, port |-> <<>>,
     path |-> path, cannotBeABase |-> opaque, query |-> query, fragment |-> fragment]

UrlParse(input) ==
    LET e == SchemeEnd(input)
    IN  IF e = 0 THEN ParseErr("RelativeUrlWithoutBase")
        ELSE
        LET scheme == Take(input, e - 1)
            rest == Drop(input, e)
            h == FirstIdx(rest, {"#"})
            noFrag == IF h = 0 THEN rest ELSE Take(rest, h - 1)
            fragment == IF h = 0 THEN <<>> ELSE <<Drop(rest, h)>>
            q == FirstIdx(noFrag, {"?"})
            body == IF q = 0 THEN noFrag ELSE Take(noFrag, q - 1)
            query == IF q = 0 THEN <<>> ELSE <<Drop(noFrag, q)>>
            special == scheme \in SpecialSchemes
            slashes == IF special THEN {"/", "\\"} ELSE {"/"}
            \* a special scheme ignores how many slashes follow the colon
            after == IF special THEN TrimStart(body, slashes) ELSE Drop(body, 2)
            a == FirstIdx(after, slashes)
            auth == IF a = 0 THEN after ELSE Take(after, a - 1)
            rawpath == IF a = 0 THEN <<>> ELSE Drop(after, a - 1)
        IN  IF special \/ (Len(body) >= 2 /\ Take(body, 2) = <<"/", "/">>)
            THEN ParseAuthority(scheme, special, auth, rawpath, query, fragment)
            ELSE IF body # <<>> /\ body[1] = "/"
            THEN NoAuthority(scheme, ParsePath(body, FALSE), FALSE, query, fragment)
            ELSE NoAuthority(scheme, body, TRUE, query, fragment)

\* url::Url::domain: the host when it is a domain name, <<>> for None
Domain(url) == IF url.hostKind = "Domain" THEN <<url.host>> ELSE <<>>

(***************************************************************************)
(* OriginUrlScheme::get_url (main.rs 321-340).                             *)
(***************************************************************************)
DEFAULT_HOST == <<"g", "i", "t", "h", "u", "b", ".", "c", "o", "m">>

HttpsPrefix == <<"h", "t", "t", "p", "s", ":", "/", "/">>
SshPrefix == <<"s", "s", "h", ":", "/", "/">>
SshGitPrefix == <<"s", "s", "h", ":", "/", "/", "g", "i", "t", "@">>

OriginUrlScheme == {"Https", "Ssh"}

\* the username appended instead of prepended
WithUsernameAppended(repo, default_username) == repo \o <<"/">> \o default_username

\* format!("{default_username}/{repo}")
WithUsername(repo, default_username) == default_username \o <<"/">> \o repo

\* format!("{DEFAULT_HOST}/{repo}")
WithHost(repo) == DEFAULT_HOST \o <<"/">> \o repo

\* the secure-shell arm without its test for '@'
WithSchemeAlwaysGit(self, repo) ==
    IF self = "Https" THEN HttpsPrefix \o repo ELSE SshGitPrefix \o repo

\* the scheme prefix without its "//"
WithSchemeNoSlashes(self, repo) ==
    IF self = "Https" THEN <<"h", "t", "t", "p", "s", ":">> \o repo
    ELSE <<"s", "s", "h", ":">> \o repo

\* the scheme prefix of the 3-piece case
WithScheme(self, repo) ==
    IF self = "Https" THEN HttpsPrefix \o repo
    ELSE IF Contains(repo, "@") THEN SshPrefix \o repo
    ELSE SshGitPrefix \o repo

\* the arms selected by the number of separators instead of the number of pieces
MatchArmBySeparators(repo) ==
    LET n == Count(repo, "/") IN IF n \in {1, 2, 3} THEN n ELSE 0

\* match repo.split('/').count(): the arm taken, 0 for the wildcard arm
MatchArm(repo) ==
    LET n == SplitCount(repo) IN IF n \in {1, 2, 3} THEN n ELSE 0

\* whether get_url recurses on repo (the match arms 1, 2 and 3)
Recurses(repo) == MatchArm(repo) # 0

\* the argument of the recursive call
RecursiveArg(self, repo, default_username) ==
    CASE MatchArm(repo) = 1 -> WithUsername(repo, default_username)
      [] MatchArm(repo) = 2 -> WithHost(repo)
      [] MatchArm(repo) = 3 -> WithScheme(self, repo)

RECURSIVE get_url(_, _, _)
get_url(self, repo, default_username) ==
    IF Recurses(repo)
    THEN get_url(self, RecursiveArg(self, repo, default_username), default_username)
    ELSE UrlParse(repo)

(***************************************************************************)
(* std::path: a path is its string; equality, strip_prefix and parent work *)
(* on its components, as Path's do.                                        *)
(***************************************************************************)
RootComponent == <<"/">>

IsAbsolute(p) == p # <<>> /\ p[1] = "/"

\* Path::components: the root, then the names; empty pieces and "." pieces
\* are dropped, except a "." that starts a relative path
Components(p) ==
    LET pieces == Split(p, {"/"})
        kept == SelectSeq([i \in 1..Len(pieces) |-> <<i, pieces[i]>>],
                          LAMBDA e : e[2] # <<>> /\ (e[2] # <<".">> \/ (e[1] = 1)))
    IN  (IF IsAbsolute(p) THEN <<RootComponent>> ELSE <<>>)
        \o [i \in 1..Len(kept) |-> kept[i][2]]

\* the string of a relative path with the given component names
RECURSIVE FromNames(_)
FromNames(names) ==
    IF names = <<>> THEN <<>>
    ELSE IF Len(names) = 1 THEN names[1]
    ELSE names[1] \o <<"/">> \o FromNames(Drop(names, 1))

\* PathBuf::join (push): an absolute argument replaces the path
PathJoin(p, q) ==
    IF IsAbsolute(q) THEN q
    ELSE IF p = <<>> THEN q
    ELSE IF p[Len(p)] = "/" THEN p \o q
    ELSE p \o <<"/">> \o q

IsPrefixSeq(a, b) == Len(a) <= Len(b) /\ Take(b, Len(a)) = a

\* Path::strip_prefix: <<>> for Err, <<the relative path>> for Ok
StripPrefix(p, base) ==
    LET pc == Components(p)
        bc == Components(base)
    IN  IF IsPrefixSeq(bc, pc) THEN <<FromNames(Drop(pc, Len(bc)))>> ELSE <<>>

(***************************************************************************)
(* struct App (main.rs 196-299). An App is a record of the struct's        *)
(* fields; config holds the two keys the methods read. Option values are   *)
(* <<>> (None) or <<v>> (Some(v)). A method returns its Result and the App *)
(* with its caches as the method leaves them.                              *)
(***************************************************************************)
PKG_NAME == <<"g", "r", "m">>
WorktreesDir == <<"w", "o", "r", "k", "t", "r", "e", "e", "s">>

Ok(v) == [ok |-> TRUE, val |-> v]
Err(kind, about) == [ok |-> FALSE, err |-> kind, about |-> about]

\* App::current_repo
current_repo(app) ==
    IF app.current = <<>> THEN Err("NoCurrentRepository", <<>>) ELSE Ok(app.current[1])

\* App::root_dir
root_dir(app, env) ==
    IF app.root_dir_cache # <<>> THEN [ret |-> Ok(app.root_dir_cache[1]), app |-> app]
    ELSE LET path == IF app.config.root # <<>> THEN app.config.root
                     ELSE IF env.home_dir # <<>>
                     THEN <<PathJoin(env.home_dir[1], PKG_NAME)>>
                     ELSE <<>>
         IN  IF path = <<>> THEN [ret |-> Err("ConfigResolutionFailure", <<>>), app |-> app]
             ELSE [ret |-> Ok(path[1]), app |-> [app EXCEPT !.root_dir_cache = path]]

\* get_repo_path joining the URL path as it is, leading '/' included
get_repo_path_untrimmed(app, env, origin) ==
    IF Domain(origin) = <<>> THEN [ret |-> Err("MissingDomain", origin), app |-> app]
    ELSE LET r == root_dir(app, env)
         IN  IF ~r.ret.ok THEN r
             ELSE [ret |-> Ok(PathJoin(PathJoin(r.ret.val, Domain(origin)[1]), origin.path)),
                   app |-> r.app]

\* get_repo_path without the domain requirement: a missing domain joins nothing
get_repo_path_no_domain_check(app, env, origin) ==
    LET r == root_dir(app, env)
        d == IF Domain(origin) = <<>> THEN <<>> ELSE Domain(origin)[1]
    IN  IF ~r.ret.ok THEN r
        ELSE [ret |-> Ok(PathJoin(PathJoin(r.ret.val, d), TrimStart(origin.path, {"/"}))),
              app |-> r.app]

\* App::get_repo_path
get_repo_path(app, env, origin) ==
    IF Domain(origin) = <<>> THEN [ret |-> Err("MissingDomain", origin), app |-> app]
    ELSE LET r == root_dir(app, env)
         IN  IF ~r.ret.ok THEN r
             ELSE [ret |-> Ok(PathJoin(PathJoin(r.ret.val, Domain(origin)[1]),
                                       TrimStart(origin.path, {"/"}))),
                   app |-> r.app]

\* App::worktree_root_dir
worktree_root_dir(app, env) ==
    LET r == root_dir(app, env)
    IN  IF ~r.ret.ok THEN r ELSE [ret |-> Ok(PathJoin(r.ret.val, WorktreesDir)), app |-> r.app]

\* repo.workdir().unwrap_or_else(|| repo.path())
WorkdirOrPath(r) == IF r.workdir # <<>> THEN r.workdir[1] ELSE r.path

\* the main working directory taken from the current repository itself,
\* also when it is a linked worktree
OwnWorktreePath(current) == Ok(WorkdirOrPath(current))

\* main_worktree_path of get_worktree_path: through commondir for a linked
\* worktree; Repository::open_ext may fail
MainWorktreePath(current) ==
    IF current.is_worktree
    THEN (IF current.main = <<>> THEN Err("Git", <<>>) ELSE Ok(WorkdirOrPath(current.main[1])))
    ELSE Ok(WorkdirOrPath(current))

\* branch_name.replace('/', "__"), the name the worktree is registered under
RECURSIVE ReplaceSlashes(_)
ReplaceSlashes(s) ==
    IF s = <<>> THEN <<>>
    ELSE (IF s[1] = "/" THEN <<"_", "_">> ELSE <<s[1]>>) \o ReplaceSlashes(Drop(s, 1))

\* the branch joined as one segment, its slashes replaced
JoinBranchReplaced(dir, branch) == PathJoin(dir, ReplaceSlashes(branch))

\* the last join of get_worktree_path: .join(branch)
JoinBranch(dir, branch) == PathJoin(dir, branch)

\* App::get_worktree_path
get_worktree_path(app, env, branch) ==
    LET cur == current_repo(app)
    IN  IF ~cur.ok THEN [ret |-> cur, app |-> app]
        ELSE
        LET main == MainWorktreePath(cur.val)
        IN  IF ~main.ok THEN [ret |-> main, app |-> app]
            ELSE
            LET r == root_dir(app, env)
            IN  IF ~r.ret.ok THEN r
                ELSE
                LET relative == StripPrefix(main.val, r.ret.val)
                    w == worktree_root_dir(r.app, env)
                IN  IF relative = <<>>
                    THEN [ret |-> Err("UnmanagedRepository", main.val), app |-> r.app]
                    ELSE [ret |-> Ok(JoinBranch(PathJoin(w.ret.val, relative[1]), branch)),
                          app |-> w.app]

\* App::user_name
user_name(app, env) ==
    IF app.user_name_cache # <<>> THEN [ret |-> Ok(app.user_name_cache[1]), app |-> app]
    ELSE LET name == IF app.config.user_name # <<>> THEN app.config.user_name
                     ELSE env.username
         IN  IF name = <<>> THEN [ret |-> Err("ConfigResolutionFailure", <<>>), app |-> app]
             ELSE [ret |-> Ok(name[1]), app |-> [app EXCEPT !.user_name_cache = name]]

(***************************************************************************)
(* State.                                                                  *)
(***************************************************************************)
VARIABLES
    \* one evaluation of get_url, call by call
    scheme,             \* self: the scheme preference
    arg0,               \* the reference get_url was first called with
    repo,               \* the argument of the call in progress
    default_username,
    calls,              \* recursive calls made so far
    url_pc,             \* "call" while a call is in progress, "done" after the return
    url_result,         \* the Result returned: a parsed Url or a parse error
    \* one App and its process environment
    app,                \* [current, config, root_dir_cache, user_name_cache]
    env,                \* [home_dir, username]: std::env::home_dir, whoami
    app_call,           \* the last method called on app, with its argument
    app_ret,            \* what that call returned
    \* one run of main
    cmd_out,            \* what the command printed, attempted and returned
    local_branches,     \* the local branches of the current repository
    tree,               \* what each path below the root directory holds
    walker              \* the list command: its walkdir iterator and what it did

urlVars == <<scheme, arg0, repo, default_username, calls, url_pc, url_result>>
appVars == <<app, env>>
callVars == <<app_call, app_ret>>
cmdVars == <<cmd_out, local_branches>>
listVars == <<tree, walker>>
vars == <<urlVars, appVars, callVars, cmdVars, listVars>>

(***************************************************************************)
(* Inputs of get_url.                                                      *)
(***************************************************************************)
RefChars == {"a", "1", "/", "@", "."}
UserChars == {"a", "/"}

RefBodies == SeqsUpTo(RefChars, MaxRefLen)

RefPrefixes ==
    {<<>>, HttpsPrefix, SshPrefix, DEFAULT_HOST \o <<"/">>,
     HttpsPrefix \o DEFAULT_HOST \o <<"/">>, <<"a", ":">>,
     <<"a", "@", "a", "/", "a", "/">>, <<"1", ".", "1", "/", "a", "/">>,
     <<"a", ":", "/", "a", "/", "a", "/">>, <<"a", ":", "a", "/", "a", "/", "a", "/">>}

References == {p \o b : p \in RefPrefixes, b \in RefBodies}
Usernames == SeqsUpTo(UserChars, MaxUserLen)

NoUrl == [ok |-> FALSE, err |-> "NotReturned"]

UrlIdle ==
    /\ scheme = "Https" /\ arg0 = <<>> /\ repo = <<>> /\ default_username = <<>>
    /\ calls = 0 /\ url_pc = "idle" /\ url_result = NoUrl

(***************************************************************************)
(* Environments of an App.                                                 *)
(***************************************************************************)
Repo(is_worktree, workdir, path, main) ==
    [is_worktree |-> is_worktree, workdir |-> workdir, path |-> path, main |-> main]

\* the main repository a linked worktree resolves to through commondir
MainRepo(workdir, path) == [workdir |-> workdir, path |-> path]

DirRoot == <<"/", "r">>
DirHome == <<"/", "h">>
DirManaged == <<"/", "r", "/", "a", "/">>
DirManagedGit == <<"/", "r", "/", "a", "/", ".", "g", "i", "t", "/">>
DirBare == <<"/", "r", "/", "b", "/">>
DirSibling == <<"/", "r", "r", "/", "a", "/">>
DirOutside == <<"/", "x", "/", "a", "/">>
DirUnderHome == <<"/", "h", "/", "g", "r", "m", "/", "a", "/">>
DirLinked == <<"/", "r", "/", "w", "/">>
DirLinkedOutside == <<"/", "x", "/", "w", "/">>
DirLinkedGit == DirManagedGit \o <<"w", "/">>

\* what git2::Repository::discover(".") can find
CurrentRepos ==
    {<<>>,
     <<Repo(FALSE, <<DirManaged>>, DirManagedGit, <<>>)>>,
     <<Repo(FALSE, <<>>, DirBare, <<>>)>>,
     <<Repo(FALSE, <<DirRoot \o <<"/">> >>, DirRoot \o <<"/", ".", "g", "i", "t", "/">>, <<>>)>>,
     <<Repo(FALSE, <<DirSibling>>, DirSibling \o <<".", "g", "i", "t", "/">>, <<>>)>>,
     <<Repo(FALSE, <<DirUnderHome>>, DirUnderHome \o <<".", "g", "i", "t", "/">>, <<>>)>>,
     <<Repo(TRUE, <<DirLinked>>, DirLinkedGit, <<MainRepo(<<DirManaged>>, DirManagedGit)>>)>>,
     <<Repo(TRUE, <<DirLinked>>, DirLinkedGit, <<MainRepo(<<DirOutside>>, DirOutside)>>)>>,
     <<Repo(TRUE, <<DirLinkedOutside>>, DirLinkedGit,
            <<MainRepo(<<DirManaged>>, DirManagedGit)>>)>>,
     <<Repo(TRUE, <<DirLinked>>, DirLinkedGit, <<>>)>>,
     <<Repo(TRUE, <<DirLinked>>, DirBare \o <<"w", "/">>, <<MainRepo(<<>>, DirBare)>>)>>}

\* the keys grm.root and user.name of the git configuration
Configs == [root : {<<>>, <<DirRoot>>}, user_name : {<<>>, << <<"a">> >>}]

Envs == [home_dir : {<<>>, <<DirHome>>}, username : {<<>>, << <<"a", "/">> >>}]

\* App::open_current / App::open_default: both caches empty
Apps ==
    {[current |-> c, config |-> g, root_dir_cache |-> <<>>, user_name_cache |-> <<>>] :
        c \in CurrentRepos, g \in Configs}

\* local branch names (git reference names: no empty component)
BranchNames ==
    {<<"a">>, <<"b">>, <<"a", "b">>, <<"a", "/", "b">>, <<"b", "/", "a">>,
     <<"a", "/", "a", "b">>, <<"a", "b", "/", "a">>, <<"a", "/", "b", "/", "a">>}

UrlChars == {"a", "/"}
UrlPrefixes ==
    {HttpsPrefix \o <<"a", "/">>, SshGitPrefix \o <<"a", "/">>, HttpsPrefix \o <<"1", "/">>,
     SshPrefix \o <<"/">>, <<"a", ":", "/">>, <<"a", ":">>}
UrlInputs == {p \o b : p \in UrlPrefixes, b \in SeqsUpTo(UrlChars, MaxUrlLen)}

\* the url::Url values a caller can hold
Urls == {u \in {UrlParse(i) : i \in UrlInputs} : u.ok}

NoCall == [fn |-> "none", arg |-> <<>>]

AppIdle ==
    /\ app = [current |-> <<>>, config |-> [root |-> <<>>, user_name |-> <<>>],
              root_dir_cache |-> <<>>, user_name_cache |-> <<>>]
    /\ env = [home_dir |-> <<>>, username |-> <<>>]

CallIdle == app_call = NoCall /\ app_ret = Err("NotCalled", <<>>)

\* main has not run its command yet
NoOut ==
    [cmd |-> "none", repo |-> <<>>, ssh |-> FALSE, origin |-> NoUrl,
     printed |-> <<>>, ops |-> <<>>, result |-> Err("NotRun", <<>>)]

CmdIdle == cmd_out = NoOut /\ local_branches = {}

\* the paths below the root directory, as sequences of entry names
Nodes ==
    {<<"a">>, <<"b">>, <<"a", "a">>, <<"a", "b">>, <<"b", "a">>, <<"b", "b">>}

\* what a path holds: nothing; a directory; a directory that opens as a
\* repository; a directory whose entries cannot be read; a symbolic link to a
\* repository; any other entry that is not a directory
Kinds == {"none", "dir", "repo", "locked", "link", "file"}

Parent(n) == Take(n, Len(n) - 1)

Present(t) == {n \in Nodes : t[n] # "none"}

\* entries exist only inside directories
Trees ==
    {t \in [Nodes -> Kinds] :
        /\ Cardinality(Present(t)) <= MaxEntries
        /\ \A n \in Present(t) : Len(n) > 1 => t[Parent(n)] \in {"dir", "repo"}}

NoTree == [n \in Nodes |-> "none"]
NoWalk ==
    [pc |-> "idle", absolute |-> FALSE, root |-> <<>>, stack_list |-> <<>>,
     visited |-> <<>>, listed |-> <<>>]

ListIdle == tree = NoTree /\ walker = NoWalk

(***************************************************************************)
(* The methods of one App, called in any order.                            *)
(***************************************************************************)
InitApp ==
    /\ app \in Apps
    /\ env \in Envs
    /\ CallIdle
    /\ UrlIdle /\ CmdIdle /\ ListIdle

Called(fn, arg, r) ==
    /\ app_call' = [fn |-> fn, arg |-> arg]
    /\ app_ret' = r.ret
    /\ app' = r.app
    /\ UNCHANGED <<env, urlVars, cmdVars, listVars>>

CallRootDir == Called("root_dir", <<>>, root_dir(app, env))

CallUserName == Called("user_name", <<>>, user_name(app, env))

CallWorktreeRootDir == Called("worktree_root_dir", <<>>, worktree_root_dir(app, env))

CallGetRepoPath == \E origin \in Urls : Called("get_repo_path", origin, get_repo_path(app, env, origin))

CallGetWorktreePath ==
    \E branch \in BranchNames :
        Called("get_worktree_path", branch, get_worktree_path(app, env, branch))

NextApp ==
    \/ CallRootDir
    \/ CallUserName
    \/ CallWorktreeRootDir
    \/ CallGetRepoPath
    \/ CallGetWorktreePath

SpecApp == InitApp /\ [][NextApp]_vars

(***************************************************************************)
(* main: the get and new commands (main.rs 86-149). One behaviour is one   *)
(* run of the program: a command runs once, on a fresh App.                *)
(***************************************************************************)
CmdRefs == {p \o b : p \in RefPrefixes, b \in SeqsUpTo(RefChars, MaxCmdRefLen)}

\* the repositories discovery can find that matter to get and new
CloneApps == {a \in Apps : a.current \in {<<>>, <<Repo(FALSE, <<DirManaged>>, DirManagedGit, <<>>)>>}}

InitClone ==
    /\ app \in CloneApps
    /\ env \in Envs
    /\ cmd_out = NoOut
    /\ local_branches = {}
    /\ CallIdle
    /\ UrlIdle
    /\ ListIdle

SchemeOf(ssh) == IF ssh THEN "Ssh" ELSE "Https"

Line(label, value) == [label |-> label, value |-> value]

\* the first half of get and new, after the user name: origin URL, local path.
\* [origin, printed, path]: path is the Result of the last step reached
OriginThenPath(un, origin) ==
    IF ~origin.ok
    THEN [origin |-> origin, printed |-> <<>>, path |-> Err("InvalidReference", origin.err)]
    ELSE Only({[origin |-> origin,
                printed |-> <<Line("origin", origin)>>
                            \o (IF path.ok THEN <<Line("path", path.val)>> ELSE <<>>),
                path |-> path] : path \in {get_repo_path(un.app, env, origin).ret}})

\* the first half of get and new: user name, origin URL, local path
OriginAndPath(reference, ssh) ==
    Only({IF ~un.ret.ok THEN [origin |-> NoUrl, printed |-> <<>>, path |-> un.ret]
          ELSE Only({OriginThenPath(un, origin) :
                        origin \in {get_url(SchemeOf(ssh), reference, un.ret.val)}}) :
          un \in {user_name(app, env)}})

Finish(cmd, reference, ssh, first, ops, result) ==
    /\ cmd_out' = [cmd |-> cmd, repo |-> reference, ssh |-> ssh, origin |-> first.origin,
                   printed |-> first.printed, ops |-> ops, result |-> result]
    /\ UNCHANGED <<appVars, callVars, urlVars, local_branches, listVars>>

\* CliCommand::Get: git clone [--depth N] <origin> <path>
CmdGet ==
    \E reference \in CmdRefs, ssh \in BOOLEAN, depth \in 0..MaxDepth,
       status \in {"success", "failure", "not executed"} :
        /\ cmd_out = NoOut
        /\ \E first \in {OriginAndPath(reference, ssh)} :
           LET clone == [op |-> "clone",
                         depth |-> IF depth > 0 THEN <<depth>> ELSE <<>>,
                         url |-> first.origin, path |-> first.path.val]
           IN  IF ~first.path.ok
               THEN Finish("get", reference, ssh, first, <<>>, first.path)
               ELSE Finish("get", reference, ssh, first, <<clone>>,
                           IF status = "success" THEN Ok(<<>>)
                           ELSE Err("CommandFailed", status))

\* CliCommand::New { worktree: false }: init with the origin remote, then the
\* upstream of the default branch
CmdNew ==
    \E name \in CmdRefs, ssh \in BOOLEAN, init_ok \in BOOLEAN, config_ok \in BOOLEAN,
       default_branch \in {<<"m", "a", "i", "n">>, <<"m", "a", "s", "t", "e", "r">>} :
        /\ cmd_out = NoOut
        /\ \E first \in {OriginAndPath(name, ssh)} :
           LET init == [op |-> "init", no_reinit |-> TRUE,
                        url |-> first.origin, path |-> first.path.val]
               set(key, value) == [op |-> "config_set", branch |-> default_branch,
                                   key |-> key, value |-> value]
           IN  IF ~first.path.ok
               THEN Finish("new", name, ssh, first, <<>>, first.path)
               ELSE IF ~init_ok
               THEN Finish("new", name, ssh, first, <<init>>, Err("Git", "init"))
               ELSE IF ~config_ok
               THEN Finish("new", name, ssh, first, <<init, set("remote", "origin")>>,
                           Err("Git", "config"))
               ELSE Finish("new", name, ssh, first,
                           <<init, set("remote", "origin"), set("merge", "refs/heads")>>,
                           Ok(<<>>))

NextClone == CmdGet \/ CmdNew

SpecClone == InitClone /\ [][NextClone]_vars

(***************************************************************************)
(* main: the new command with --worktree (main.rs 151-190).                *)
(***************************************************************************)
\* the name arguments
WorktreeNames == SeqsUpTo({"a", "/"}, MaxNameLen)

\* a local branch is <<its name>>, or <<>> when its name is not valid UTF-8
BranchEntries == {<<>>} \cup {<<b>> : b \in BranchNames}

InitWorktree ==
    /\ app \in {a \in Apps : a.config.user_name = <<>>}
    /\ env \in {e \in Envs : e.username # <<>>}
    /\ local_branches \in {B \in SUBSET BranchEntries : Cardinality(B) <= MaxBranches}
    /\ cmd_out = NoOut
    /\ CallIdle
    /\ UrlIdle
    /\ ListIdle

\* the comparator of sort_unstable_by: lhs sorts no later than rhs
SortsBefore(lhs, rhs) ==
    \/ SplitCount(lhs) < SplitCount(rhs)
    \/ SplitCount(lhs) = SplitCount(rhs) /\ Len(lhs) <= Len(rhs)

RECURSIVE Arrangements(_)
Arrangements(S) ==
    IF S = {} THEN {<<>>}
    ELSE UNION {{<<x>> \o q : q \in Arrangements(S \ {x})} : x \in S}

\* what sort_unstable_by can leave: the order of equal elements is not fixed
SortedOrders(S) ==
    {q \in Arrangements(S) : \A i \in 1..Len(q) : \A j \in i..Len(q) : SortsBefore(q[i], q[j])}

\* the loop over repo.branches: the names that contain the argument
Matching(name) == {e[1] : e \in {e \in local_branches : e # <<>> /\ ContainsStr(e[1], name)}}

\* branches.first()
FirstOf(branches) == IF branches = <<>> THEN <<>> ELSE <<branches[1]>>

\* branches.last()
LastOf(branches) == IF branches = <<>> THEN <<>> ELSE <<branches[Len(branches)]>>

FinishWorktree(name, printed, ops, result) ==
    /\ cmd_out' = [cmd |-> "new-worktree", repo |-> name, ssh |-> FALSE, origin |-> NoUrl,
                   printed |-> printed, ops |-> ops, result |-> result]
    /\ UNCHANGED <<appVars, callVars, urlVars, local_branches, listVars>>

\* the command from the selected branch on: path, removal of an empty
\* directory, existence check, parent directories, worktree registration.
\* dir is what the path holds on disk when the command runs
AddWorktree(name, branch_name, path, dir, mkdir_ok, add_ok) ==
    LET printed == <<Line("branch", branch_name)>>
        remove == [op |-> "remove_dir", name |-> <<>>, path |-> path.val,
                   branch |-> branch_name]
        mkdir == [op |-> "create_dir_all", name |-> <<>>, path |-> path.val,
                  branch |-> branch_name]
        add == [op |-> "worktree", name |-> ReplaceSlashes(branch_name), path |-> path.val,
                branch |-> branch_name]
    IN  IF ~path.ok THEN FinishWorktree(name, printed, <<>>, path)
        ELSE IF dir = "nonempty"
        THEN FinishWorktree(name, printed \o <<Line("worktree", path.val)>>, <<remove>>,
                            Err("AlreadyExists", path.val))
        ELSE IF ~mkdir_ok
        THEN FinishWorktree(name, printed \o <<Line("worktree", path.val)>>,
                            <<remove, mkdir>>, Err("Io", "create_dir_all"))
        ELSE FinishWorktree(name, printed \o <<Line("worktree", path.val)>>,
                            <<remove, mkdir, add>>,
                            IF add_ok THEN Ok(<<>>) ELSE Err("Git", "worktree"))

\* CliCommand::New { worktree: true }
CmdNewWorktree ==
    \E name \in WorktreeNames, list_ok \in BOOLEAN, dir \in {"absent", "empty", "nonempty"},
       mkdir_ok \in BOOLEAN, add_ok \in BOOLEAN :
        /\ cmd_out = NoOut
        /\ IF ~current_repo(app).ok THEN FinishWorktree(name, <<>>, <<>>, current_repo(app))
           ELSE IF ~list_ok THEN FinishWorktree(name, <<>>, <<>>, Err("Git", "branches"))
           ELSE \E branches \in SortedOrders(Matching(name)) :
                \E selected \in {LastOf(branches)} :
                    IF selected = <<>>
                    THEN FinishWorktree(name, <<>>, <<>>, Err("NoMatchingBranch", name))
                    ELSE \E path \in {get_worktree_path(app, env, selected[1]).ret} :
                            AddWorktree(name, selected[1], path, dir, mkdir_ok, add_ok)

NextWorktree == CmdNewWorktree

SpecWorktree == InitWorktree /\ [][NextWorktree]_vars

(***************************************************************************)
(* main: the list command (main.rs 66-84), one loop iteration per step.    *)
(* walker.stack_list is the iterator's stack of open directories, the top  *)
(* last; walker.visited are the entries the loop body received and         *)
(* walker.listed the ones it printed.                                      *)
(***************************************************************************)
InitList ==
    /\ app \in {a \in Apps : a.current = <<>> /\ a.config.user_name = <<>>}
    /\ env \in {e \in Envs : e.username # <<>>}
    /\ tree \in Trees
    /\ walker = NoWalk
    /\ CmdIdle
    /\ CallIdle
    /\ UrlIdle

\* the entries of the directory n
Children(n) == {c \in Present(tree) : Parent(c) = n}

\* walkdir's push: the directory is opened; a failure of read_dir is kept in
\* the list and comes out of the list's next()
DirList(n, readable) ==
    [err |-> ~readable, entries |-> IF readable THEN Children(n) ELSE {}]

\* git2::Repository::open(path).is_ok()
OpensAsRepository(n) == tree[n] \in {"repo", "link"}

\* a directory that is not a symbolic link: handle_entry pushes it
IsNormalDir(n) == tree[n] \in {"dir", "repo", "locked"}

\* the loop of IntoIter::next: lists that are used up are popped
RECURSIVE PopExhausted(_)
PopExhausted(stack) ==
    IF stack = <<>> THEN stack
    ELSE IF ~stack[Len(stack)].err /\ stack[Len(stack)].entries = {}
    THEN PopExhausted(Take(stack, Len(stack) - 1))
    ELSE stack

\* walker.skip_current_dir()
SkipCurrentDir(stack) == IF stack # <<>> THEN Take(stack, Len(stack) - 1) ELSE stack

\* the path of an entry, and the path the loop prints for it
EntryPath(root, n) == PathJoin(root, FromNames([i \in 1..Len(n) |-> <<n[i]>>]))
PrintedPath(root, n, absolute) ==
    IF absolute \/ StripPrefix(EntryPath(root, n), root) = <<>> THEN EntryPath(root, n)
    ELSE StripPrefix(EntryPath(root, n), root)[1]

\* the command up to the loop: App::open_default, root_dir, WalkDir::new with
\* min_depth(1); the first next() opens the root directory without yielding
\* it. A root directory that cannot be read is one whose entries are unknown
ListStart ==
    \E absolute \in BOOLEAN, root_readable \in BOOLEAN :
        /\ walker.pc = "idle"
        /\ root_readable \/ Present(tree) = {}
        /\ cmd_out = NoOut
        /\ \E r \in {root_dir(app, env).ret} :
            IF ~r.ok
            THEN /\ walker' = [walker EXCEPT !.pc = "done"]
                 /\ cmd_out' = [cmd_out EXCEPT !.cmd = "list", !.result = r]
            ELSE /\ walker' = [walker EXCEPT !.pc = "loop", !.absolute = absolute,
                                             !.root = r.val,
                                             !.stack_list = <<DirList(<<>>, root_readable)>>]
                 /\ cmd_out' = [cmd_out EXCEPT !.cmd = "list"]
        /\ UNCHANGED <<appVars, callVars, urlVars, local_branches, tree>>

\* while let Some(Ok(entry)) = walker.next(): next() gives None or an error,
\* and the loop and the command end, successfully
ListEnd ==
    /\ walker.pc = "loop"
    /\ \E stack \in {PopExhausted(walker.stack_list)} :
        /\ IF stack = <<>> THEN TRUE ELSE stack[Len(stack)].err
        /\ walker' = [walker EXCEPT !.pc = "done", !.stack_list = stack]
        /\ cmd_out' = [cmd_out EXCEPT !.result = Ok(<<>>)]
    /\ UNCHANGED <<appVars, callVars, urlVars, local_branches, tree>>

\* while let Some(Ok(entry)) = walker.next(): next() gives an entry of the
\* directory on top of the stack, in the order of the file system, and the
\* loop body runs on it
ListEntry ==
    /\ walker.pc = "loop"
    /\ \E stack \in {PopExhausted(walker.stack_list)} :
        /\ IF stack = <<>> THEN FALSE ELSE ~stack[Len(stack)].err
        /\ \E n \in stack[Len(stack)].entries :
            \E rest \in {[stack EXCEPT ![Len(stack)].entries = @ \ {n}]} :
            \E pushed \in {IF IsNormalDir(n)
                           THEN Append(rest, DirList(n, tree[n] # "locked"))
                           ELSE rest} :
                IF OpensAsRepository(n)
                THEN /\ walker' = [walker EXCEPT !.stack_list = SkipCurrentDir(pushed),
                                                 !.visited = Append(@, n),
                                                 !.listed = Append(@, n)]
                     /\ cmd_out' = [cmd_out EXCEPT !.printed =
                            Append(@, Line("repo", PrintedPath(walker.root, n,
                                                               walker.absolute)))]
                ELSE /\ walker' = [walker EXCEPT !.stack_list = pushed,
                                                 !.visited = Append(@, n)]
                     /\ UNCHANGED cmd_out
    /\ UNCHANGED <<appVars, callVars, urlVars, local_branches, tree>>

NextList == ListStart \/ ListEntry \/ ListEnd

SpecList == InitList /\ [][NextList]_vars

(***************************************************************************)
(* get_url, one call per step.                                             *)
(***************************************************************************)
InitUrl ==
    /\ scheme \in OriginUrlScheme
    /\ arg0 \in References
    /\ repo = arg0
    /\ default_username \in Usernames
    /\ calls = 0
    /\ url_pc = "call"
    /\ url_result = NoUrl
    /\ AppIdle /\ CallIdle /\ CmdIdle /\ ListIdle

\* arms 1, 2, 3: the call recurses on the qualified reference
GetUrlRecurse ==
    /\ url_pc = "call"
    /\ Recurses(repo)
    /\ calls < MaxCalls
    /\ repo' = RecursiveArg(scheme, repo, default_username)
    /\ calls' = calls + 1
    /\ UNCHANGED <<scheme, arg0, default_username, url_pc, url_result>>
    /\ UNCHANGED <<appVars, callVars, cmdVars, listVars>>

\* the wildcard arm: Ok(url::Url::parse(repo)?)
GetUrlParse ==
    /\ url_pc = "call"
    /\ ~Recurses(repo)
    /\ url_result' = UrlParse(repo)
    /\ url_pc' = "done"
    /\ UNCHANGED <<scheme, arg0, repo, default_username, calls>>
    /\ UNCHANGED <<appVars, callVars, cmdVars, listVars>>

NextUrl == GetUrlRecurse \/ GetUrlParse

SpecUrl == InitUrl /\ [][NextUrl]_vars

(***************************************************************************)
(* Properties of get_url.                                                  *)
(***************************************************************************)
NoSlash(s) == ~Contains(s, "/")

\* "https://github.com/u/n"
QualifiedRef(u, n) == HttpsPrefix \o DEFAULT_HOST \o <<"/">> \o u \o <<"/">> \o n

\* the four references n, u/n, github.com/u/n, https://github.com/u/n
FourRefs(u, n) ==
    {n, u \o <<"/">> \o n, DEFAULT_HOST \o <<"/">> \o u \o <<"/">> \o n, QualifiedRef(u, n)}

\* C1: under the encrypted-HTTP preference, for a username u and a name n
\* without '/', get_url returns the parse of https://github.com/u/n for each
\* of the references n, u/n, github.com/u/n and https://github.com/u/n.
C1_ProgressiveQualification ==
    (url_pc = "done" /\ scheme = "Https" /\ NoSlash(default_username)) =>
        \A n \in {b \in RefBodies : NoSlash(b)} :
            arg0 \in FourRefs(default_username, n) =>
                url_result = UrlParse(QualifiedRef(default_username, n))

C1_Witness ==
    /\ url_pc = "done" /\ scheme = "Https"
    /\ default_username = <<"a">> /\ arg0 = <<"1">>
    /\ calls = 3
    /\ url_result.ok /\ url_result.host = DEFAULT_HOST
    /\ url_result.path = <<"/", "a", "/", "1">>

\* C2: get_url on a reference with at least 3 separators returns the direct
\* parse of that reference, without a recursive call, whatever the scheme
\* preference and the username.
C2_FullUrlPassThrough ==
    (url_pc = "done" /\ Count(arg0, "/") >= 3) =>
        /\ url_result = UrlParse(arg0)
        /\ calls = 0

C2_Witness ==
    /\ url_pc = "done" /\ scheme = "Ssh" /\ default_username = <<"a">>
    /\ arg0 = HttpsPrefix \o DEFAULT_HOST \o <<"/", "a", "/", "1">>
    /\ url_result.ok /\ url_result.scheme = HttpsScheme /\ url_result.username = <<>>
    /\ url_result.path = <<"/", "a", "/", "1">>

\* C3: for a reference with exactly 2 separators, get_url under the
\* secure-shell preference parses "ssh://git@" + reference when the reference
\* has no '@' and "ssh://" + reference when it has one; under the
\* encrypted-HTTP preference it parses "https://" + reference in both cases.
C3_SecureShellQualification ==
    (url_pc = "done" /\ Count(arg0, "/") = 2) =>
        url_result = UrlParse(
            (IF scheme = "Https" THEN HttpsPrefix
             ELSE IF Contains(arg0, "@") THEN SshPrefix
             ELSE SshGitPrefix) \o arg0)

C3_Witness ==
    /\ url_pc = "done" /\ scheme = "Ssh"
    /\ arg0 = <<"a", "@", "a", "/", "a", "/", "1">>
    /\ url_result.ok /\ url_result.scheme = <<"s", "s", "h">>
    /\ url_result.username = <<"a">> /\ url_result.host = <<"a">>

\* a call in progress can take its next step: one of the two arms applies
CallCanStep == url_pc = "call" /\ (~Recurses(repo) \/ calls < MaxCalls)

\* C9: every recursive call of get_url is made on a string with strictly more
\* separators than the one before; at most 3 recursive calls are made; and
\* get_url never stops before it has returned a Url or a parse error.
C9_Termination ==
    /\ [][calls' # calls => Count(repo', "/") > Count(repo, "/")]_vars
    /\ [](calls <= 3)
    /\ [](url_pc = "done" =>
            /\ ~Recurses(repo)
            /\ url_result # NoUrl
            /\ (url_result.ok \/ url_result.err # "NotReturned"))
    /\ [](url_pc = "done" \/ CallCanStep)

C9_Witness ==
    /\ url_pc = "done" /\ calls = 3
    /\ arg0 = <<"a">> /\ default_username = <<"a">>
    /\ url_result.ok

(***************************************************************************)
(* Properties of the App methods.                                          *)
(***************************************************************************)
\* the root directory of the environment: the configured root, else <home>/grm
ResolvedRoot ==
    IF app.config.root # <<>> THEN app.config.root
    ELSE IF env.home_dir # <<>> THEN <<env.home_dir[1] \o <<"/">> \o PKG_NAME>>
    ELSE <<>>

StripOneSlash(p) == IF p # <<>> /\ p[1] = "/" THEN Drop(p, 1) ELSE p

\* the path written root/d/p', p' being the URL path without its leading '/'
ExpectedRepoPath(root, url) ==
    root \o <<"/">> \o url.host \o <<"/">> \o StripOneSlash(url.path)

\* C4: for a URL with domain d and path p, every call of get_repo_path returns
\* the path root/d/(p without its leading '/'), whatever was called before
\* (root_dir, user_name, get_worktree_path, get_repo_path itself); and the
\* call changes nothing but the root-directory cache, which it fills, when
\* empty, with the root it resolved.
C4_PathDerivationDeterminism ==
    /\ []((app_call.fn = "get_repo_path" /\ Domain(app_call.arg) # <<>>
             /\ ResolvedRoot # <<>>) =>
            /\ app_ret.ok
            /\ Components(app_ret.val)
                 = Components(ExpectedRepoPath(ResolvedRoot[1], app_call.arg)))
    /\ [][app_call'.fn = "get_repo_path" =>
            /\ env' = env
            /\ app'.current = app.current
            /\ app'.config = app.config
            /\ app'.user_name_cache = app.user_name_cache
            /\ \/ app'.root_dir_cache = app.root_dir_cache
               \/ app.root_dir_cache = <<>> /\ app'.root_dir_cache = ResolvedRoot]_vars

C4_Witness ==
    /\ app_call.fn = "get_repo_path"
    /\ app_call.arg.path = <<"/", "/", "a">>
    /\ app_call.arg.host = <<"a">>
    /\ app.config.root = <<DirRoot>>
    /\ app.user_name_cache # <<>>
    /\ app.root_dir_cache = <<DirRoot>>
    /\ app_ret.ok
    /\ Components(app_ret.val) = <<RootComponent, <<"r">>, <<"a">>, <<"a">> >>

(***************************************************************************)
(* Properties of the get and new commands.                                 *)
(***************************************************************************)
\* C5: when the origin URL of get or new has no domain, the command fails
\* with the MissingDomain error naming that URL, prints no path, and attempts
\* neither a clone nor an init.
C5_DomainRequirement ==
    (cmd_out.cmd \in {"get", "new"} /\ cmd_out.origin.ok /\ Domain(cmd_out.origin) = <<>>) =>
        /\ cmd_out.result = Err("MissingDomain", cmd_out.origin)
        /\ cmd_out.ops = <<>>
        /\ cmd_out.printed = <<Line("origin", cmd_out.origin)>>

C5_Witness ==
    /\ cmd_out.cmd = "get"
    /\ cmd_out.origin.ok /\ cmd_out.origin.cannotBeABase
    /\ ~cmd_out.result.ok /\ cmd_out.result.err = "MissingDomain"
    /\ cmd_out.ops = <<>>

(***************************************************************************)
(* Properties of the new command with --worktree.                          *)
(***************************************************************************)
\* the command ran in a repository and listed its branches
Listed ==
    /\ cmd_out.cmd = "new-worktree"
    /\ app.current # <<>>
    /\ cmd_out.result # Err("Git", "branches")

\* the local branch names that contain the argument
Candidates == {e[1] : e \in {e \in local_branches : e # <<>> /\ ContainsStr(e[1], cmd_out.repo)}}

\* (number of '/'-delimited segments, then length): x is not after y
RankLeq(x, y) ==
    LET sx == Count(x, "/") + 1
        sy == Count(y, "/") + 1
    IN  sx < sy \/ (sx = sy /\ Len(x) <= Len(y))

\* the branch the command selected and printed
SelectedBranch == cmd_out.printed[1].value

\* C10: the new-worktree command selects a local branch whose name contains
\* the argument and that no other such branch outranks in (segments, length);
\* when no local branch name contains the argument it fails with
\* NoMatchingBranch, touching no directory and adding no worktree.
C10_BranchResolution ==
    Listed =>
        IF Candidates = {}
        THEN /\ cmd_out.result = Err("NoMatchingBranch", cmd_out.repo)
             /\ cmd_out.ops = <<>>
             /\ cmd_out.printed = <<>>
        ELSE /\ cmd_out.printed # <<>>
             /\ cmd_out.printed[1].label = "branch"
             /\ SelectedBranch \in Candidates
             /\ \A c \in Candidates : RankLeq(c, SelectedBranch)

C10_Witness ==
    /\ Listed
    /\ cmd_out.repo = <<"a">>
    /\ local_branches = {<<<<"a", "b">>>>, <<<<"b", "/", "a">>>>}
    /\ SelectedBranch = <<"b", "/", "a">>
    /\ cmd_out.result.ok

\* the main working directory of the current repository, through the shared
\* metadata directory when the current repository is a linked worktree
MainWorkingDirectory ==
    LET cur == app.current[1]
        of == IF cur.is_worktree THEN cur.main[1] ELSE cur
    IN  IF of.workdir # <<>> THEN of.workdir[1] ELSE of.path

\* the command reached get_worktree_path, which found the main repository
\* and the root directory
PathAsked ==
    /\ Listed
    /\ cmd_out.printed # <<>>
    /\ ~(app.current[1].is_worktree /\ app.current[1].main = <<>>)
    /\ ResolvedRoot # <<>>

Managed == IsPrefixSeq(Components(ResolvedRoot[1]), Components(MainWorkingDirectory))

RECURSIVE JoinWith(_, _)
JoinWith(pieces, sep) ==
    IF pieces = <<>> THEN <<>>
    ELSE IF Len(pieces) = 1 THEN pieces[1]
    ELSE pieces[1] \o sep \o JoinWith(Drop(pieces, 1), sep)

\* the branch name with every '/' replaced by '__'
InternalName(branch) == JoinWith(Split(branch, {"/"}), <<"_", "_">>)

\* C6: get_worktree_path fails with UnmanagedRepository when the main
\* working directory of the current repository (the main repository's, when
\* the current one is a linked worktree) does not lie under the root
\* directory, and nothing is then attempted; otherwise it succeeds, and every
\* worktree the command registers is named as the branch with each '/'
\* replaced by '__'.
C6_WorktreePathContainment ==
    PathAsked =>
        IF ~Managed
        THEN /\ ~cmd_out.result.ok
             /\ cmd_out.result.err = "UnmanagedRepository"
             /\ cmd_out.ops = <<>>
             /\ Len(cmd_out.printed) = 1
        ELSE /\ Len(cmd_out.printed) = 2
             /\ cmd_out.printed[2].label = "worktree"
             /\ (cmd_out.result.ok => Len(cmd_out.ops) = 3)
             /\ \A i \in 1..Len(cmd_out.ops) :
                    cmd_out.ops[i].op = "worktree" =>
                        cmd_out.ops[i].name = InternalName(SelectedBranch)

C6_Witness ==
    /\ PathAsked
    /\ app.current[1].is_worktree
    /\ Components(app.current[1].workdir[1]) = Components(DirLinked)
    /\ ~Managed
    /\ cmd_out.result.err = "UnmanagedRepository"

\* the components of root / "worktrees" / (main working directory relative
\* to root)
WorktreeParent ==
    Components(ResolvedRoot[1]) \o <<WorktreesDir>>
        \o Drop(Components(MainWorkingDirectory), Len(Components(ResolvedRoot[1])))

\* the worktree path the command computed and printed
WorktreePath == cmd_out.printed[2].value

\* C8 as stated: the worktree path is root / "worktrees" / (main working
\* directory relative to root) / (branch with its slashes replaced), the
\* branch being one final segment.
C8_Original ==
    (PathAsked /\ Managed) =>
        Components(WorktreePath) = WorktreeParent \o <<InternalName(SelectedBranch)>>

\* C8: the worktree path is root / "worktrees" / (main working directory
\* relative to root) / branch, the branch name joined unchanged, so that a
\* branch with k slashes contributes k + 1 final segments.
C8_WorktreePathShape ==
    (PathAsked /\ Managed) =>
        /\ Components(WorktreePath) = WorktreeParent \o Split(SelectedBranch, {"/"})
        /\ Len(Components(WorktreePath))
             = Len(WorktreeParent) + Count(SelectedBranch, "/") + 1

C8_Witness ==
    /\ PathAsked
    /\ Managed
    /\ SelectedBranch = <<"a", "/", "b">>
    /\ Components(WorktreePath)
         = <<RootComponent, <<"r">>, WorktreesDir, <<"a">>, <<"a">>, <<"b">> >>
    /\ cmd_out.result.ok
    /\ cmd_out.ops[3].name = <<"a", "_", "_", "b">>

(***************************************************************************)
(* Properties of the list command.                                         *)
(***************************************************************************)
\* a is a proper ancestor of n
IsAncestor(a, n) == Len(a) < Len(n) /\ Take(n, Len(a)) = a

\* the directories that are repositories and have no repository above them
\* below the root
TopRepositories ==
    {n \in Nodes : tree[n] = "repo" /\ \A a \in Nodes : IsAncestor(a, n) => tree[a] # "repo"}

Times(seq, x) == Cardinality({i \in 1..Len(seq) : seq[i] = x})

\* C7 as stated: when the list command has ended, every directory under the
\* root that is a repository with no repository ancestor below the root was
\* listed exactly once, and no path inside a listed repository was visited
\* or listed.
C7_EnumeratorPruning ==
    (walker.pc = "done" /\ cmd_out.result.ok) =>
        /\ \A n \in TopRepositories : Times(walker.listed, n) = 1
        /\ \A i \in 1..Len(walker.visited) : \A j \in 1..Len(walker.listed) :
                ~IsAncestor(walker.listed[j], walker.visited[i])

====
